---- MODULE Spec2Model ----
(***************************************************************************)
(* OSMMapGenerator (script.py): fetch_osm_data with its retry loop,        *)
(* process_osm_data (conversion loop and clip) and generate_map (one       *)
(* fetch+process per category, then the layered drawing and the save).     *)
(*                                                                         *)
(* Python values are tagged records: None is [kind |-> "None"], a parsed   *)
(* JSON body is a dict, a list or a number.  A dict is a set of            *)
(* <<key, value>> pairs.  An Overpass element is a record whose fields     *)
(* "type", "geometry" and "tags" may each be missing; a geometry node is a *)
(* record whose fields "lon" and "lat" may each be missing.  Coordinates   *)
(* are points <<lon, lat>> of an integer grid, and a shape is known by the *)
(* grid points it covers.                                                  *)
(***************************************************************************)
EXTENDS Integers, Sequences, FiniteSets, TLC

VARIABLES pc, fi, attempt, requests, sleeps, outcomes, data, gdf, gdfs,
          di, ri, trace, failed, drawn, exc, shapely

\* pc        where generate_map is: "fetch" (about to call fetch_osm_data),
\*           "attempt" (top of the retry loop's body), "sleep" (in the
\*           except clause), "process" (the fetch has returned), "plot"
\*           (the loop over plot_order), "saved", or "aborted" (an exception
\*           left generate_map)
\* fi        index in feature_types of the category being fetched
\* attempt   the loop variable of fetch_osm_data
\* requests, sleeps   calls of requests.get and of time.sleep by the
\*           current fetch
\* outcomes  what the service answered to each request of the current fetch
\* data      what the current fetch returned
\* gdf       the frame process_osm_data built before clipping
\* gdfs      the frames process_osm_data returned, in the order of feature_types
\* di, ri    index in plot_order, index in the road types of line 170
\* trace     the run's history of fetches, processings, plot calls and save
\* failed    categories whose drawing raised
\* drawn     grid points covered by what the plot calls drew
\* exc       the exception that left generate_map and the function it left
\* shapely   the major version of the installed shapely (1 or 2)
vars == <<pc, fi, attempt, requests, sleeps, outcomes, data, gdf, gdfs,
          di, ri, trace, failed, drawn, exc, shapely>>

(* ------------------------------ bounds -------------------------------- *)
MaxLon == 7
MaxLat == 5

Grid == (0..MaxLon) \X (0..MaxLat)

(* ------------------------- program constants -------------------------- *)
feature_types == <<"roads", "buildings", "forests", "rivers", "lakes", "channels", "water">>

plot_order == <<"water", "lakes", "forests", "rivers", "channels", "roads", "buildings">>

polygon_types == {"buildings", "forests", "lakes"}

MaxAttemptsMutant == 3 + 1
MaxAttempts == 3

\* self.bbox as _calculate_bbox returns it: (south, west, north, east).
bbox == <<1, 2, 3, 5>>

south == bbox[1]
west == bbox[2]
north == bbox[3]
east == bbox[4]

\* The categories _get_overpass_query has a template for; "" otherwise.
_get_overpass_query(feature_type) ==
    IF feature_type \in {"roads", "buildings", "forests", "water", "rivers", "lakes", "channels"}
    THEN "query:" \o feature_type
    ELSE ""

(* --------------------------- Python values ---------------------------- *)
None == [kind |-> "None"]
JNumber == [kind |-> "number"]
JList(items) == [kind |-> "list", items |-> items]
JDict(fields) == [kind |-> "dict", fields |-> fields]

IsDict(v) == v.kind = "dict"
HasKey(d, k) == \E p \in d.fields : p[1] = k
Lookup(d, k) == (CHOOSE p \in d.fields : p[1] = k)[2]
\* Python truthiness of a fetch result: None and the empty dict are falsy.
Falsy(v) == v = None \/ (v.kind = "dict" /\ v.fields = {}) \/ (v.kind = "list" /\ v.items = <<>>)
\* len() is defined for lists (and dicts), not for numbers or None.
Sized(v) == v.kind \in {"list", "dict"}

Has(rec, field) == field \in DOMAIN rec

NoTags == {}
Tag(k, v) == {<<k, v>>}
NaN == "NaN"
HasTag(tags, k) == \E p \in tags : p[1] = k
TagValue(tags, k) == IF HasTag(tags, k) THEN (CHOOSE p \in tags : p[1] = k)[2] ELSE NaN

Node(lon, lat) == [lon |-> lon, lat |-> lat]
RECURSIVE Nodes(_)
Nodes(pts) == IF pts = <<>> THEN <<>> ELSE <<Node(pts[1][1], pts[1][2])>> \o Nodes(Tail(pts))

Way(pts, tags) == [type |-> "way", geometry |-> Nodes(pts), tags |-> tags]
Elements(items) == JDict({<<"elements", JList(items)>>})

(* ------------------------------ geometry ------------------------------ *)
Min(S) == CHOOSE x \in S : \A y \in S : x <= y
Max(S) == CHOOSE x \in S : \A y \in S : x >= y

Cross(a, b, p) == (b[1] - a[1]) * (p[2] - a[2]) - (b[2] - a[2]) * (p[1] - a[1])

OnSegment(p, a, b) ==
    /\ Cross(a, b, p) = 0
    /\ Min({a[1], b[1]}) <= p[1] /\ p[1] <= Max({a[1], b[1]})
    /\ Min({a[2], b[2]}) <= p[2] /\ p[2] <= Max({a[2], b[2]})

\* Grid points on the segments of a coordinate sequence.
LineCover(coords) ==
    {p \in Grid : \E i \in 1..(Len(coords) - 1) : OnSegment(p, coords[i], coords[i + 1])}

\* Grid points on the ring or strictly inside it (the rings used are convex).
PolyCover(ring) ==
    LineCover(ring) \cup
    {p \in Grid : \/ \A i \in 1..(Len(ring) - 1) : Cross(ring[i], ring[i + 1], p) > 0
                  \/ \A i \in 1..(Len(ring) - 1) : Cross(ring[i], ring[i + 1], p) < 0}

\* shapely.geometry.LineString(coords)
LineString(coords) == [type |-> "LineString", coords |-> coords, cover |-> LineCover(coords)]

\* The exterior ring Polygon(coords) builds: the first point is appended
\* when the sequence is not closed (shapely 1 appends it to every sequence
\* of exactly 3 points).
Ring(coords) ==
    IF coords[1] # coords[Len(coords)] \/ (shapely = 1 /\ Len(coords) = 3)
    THEN Append(coords, coords[1])
    ELSE coords

\* shapely 2 refuses a ring of fewer than 4 coordinates (ValueError).
PolygonRaises(coords) == shapely = 2 /\ Len(Ring(coords)) < 4

\* shapely.geometry.Polygon(coords)
Polygon(coords) == [type |-> "Polygon", coords |-> Ring(coords), cover |-> PolyCover(Ring(coords))]

\* shapely.geometry.box(minx, miny, maxx, maxy), by the grid points it covers.
box(minx, miny, maxx, maxy) ==
    {p \in Grid : minx <= p[1] /\ p[1] <= maxx /\ miny <= p[2] /\ p[2] <= maxy}

bbox_polygon_mutant == box(bbox[1], bbox[2], bbox[3], bbox[4])
\* line 132: box(self.bbox[1], self.bbox[0], self.bbox[3], self.bbox[2])
bbox_polygon == box(bbox[2], bbox[1], bbox[4], bbox[3])

(* --------------------------- GeoDataFrame ----------------------------- *)
\* A frame is its attribute columns and its rows in order; a row is a
\* geometry and the tag mapping it was built from (a column the row has no
\* value for reads NaN).
Frame(columns, rows) == [columns |-> columns, rows |-> rows]
EmptyFrame == Frame({}, <<>>)
Row(geometry, attrs) == [geometry |-> geometry, attrs |-> attrs]
IsEmpty(frame) == frame.rows = <<>>

RECURSIVE Keys(_)
Keys(props) ==
    IF props = <<>> THEN {}
    ELSE {p[1] : p \in props[1]} \cup Keys(Tail(props))

RECURSIVE Rows(_, _)
Rows(geometries, properties) ==
    IF geometries = <<>> THEN <<>>
    ELSE <<Row(geometries[1], properties[1])>> \o Rows(Tail(geometries), Tail(properties))

\* gpd.GeoDataFrame(properties, geometry=geometries, crs=...)
GeoDataFrame(properties, geometries) == Frame(Keys(properties), Rows(geometries, properties))

RECURSIVE ClipRows(_, _)
ClipRows(rows, mask) ==
    IF rows = <<>> THEN <<>>
    ELSE LET g == rows[1].geometry
             inside == g.cover \cap mask
         IN (IF inside = {} THEN <<>>
             ELSE <<Row([type |-> g.type, cover |-> inside], rows[1].attrs)>>)
            \o ClipRows(Tail(rows), mask)

\* gdf.clip(mask): rows that miss the mask are dropped, the others keep the
\* part of their shape inside it; the columns stay.
clip(frame, mask) == Frame(frame.columns, ClipRows(frame.rows, mask))

(* ------------------------- process_osm_data --------------------------- *)
NoExc == "none"

\* line 122: [(node["lon"], node["lat"]) for node in element["geometry"]]
RECURSIVE Coords(_)
Coords(nodes) ==
    IF nodes = <<>> THEN <<>>
    ELSE <<<<nodes[1].lon, nodes[1].lat>>>> \o Coords(Tail(nodes))

CoordsRaises(nodes) == \E i \in 1..Len(nodes) : ~Has(nodes[i], "lon") \/ ~Has(nodes[i], "lat")

\* line 121: element["type"] == "way" and "geometry" in element
IsWayWithGeometry(element) == element.type = "way" /\ Has(element, "geometry")

\* The exception one iteration of the loop (lines 121-127) raises, if any.
ElementExc(element, geometry_type) ==
    IF ~Has(element, "type") THEN "KeyError"
    ELSE IF ~IsWayWithGeometry(element) THEN NoExc
    ELSE IF CoordsRaises(element.geometry) THEN "KeyError"
    ELSE LET coords == Coords(element.geometry)
         IN IF Len(coords) >= 2 /\ geometry_type = "polygon" /\ Len(coords) >= 3
                /\ PolygonRaises(coords)
            THEN "ValueError"
            ELSE NoExc

\* line 125: Polygon(coords) if polygon and len(coords) >= 3 else LineString(coords)
Geo(coords, geometry_type) ==
    IF geometry_type = "polygon" /\ Len(coords) >= 3 THEN Polygon(coords) ELSE LineString(coords)

\* line 127: element.get("tags", {})
TagsOf(element) == IF Has(element, "tags") THEN element.tags ELSE NoTags

\* The rows one iteration appends (none or one), when it does not raise.
ElementRows(element, geometry_type) ==
    IF ~IsWayWithGeometry(element) THEN <<>>
    ELSE LET coords == Coords(element.geometry)
         IN IF Len(coords) < 2 THEN <<>>
            ELSE <<Row(Geo(coords, geometry_type), TagsOf(element))>>

\* lines 120-127: the loop, stopped by the first exception.
RECURSIVE Convert(_, _)
Convert(items, geometry_type) ==
    IF items = <<>> THEN [exc |-> NoExc, rows |-> <<>>]
    ELSE IF ElementExc(items[1], geometry_type) # NoExc
         THEN [exc |-> ElementExc(items[1], geometry_type), rows |-> <<>>]
         ELSE LET rest == Convert(Tail(items), geometry_type)
              IN [exc |-> rest.exc,
                  rows |-> IF rest.exc # NoExc THEN <<>>
                           ELSE ElementRows(items[1], geometry_type) \o rest.rows]

RECURSIVE Attrs(_)
Attrs(rows) == IF rows = <<>> THEN <<>> ELSE <<rows[1].attrs>> \o Attrs(Tail(rows))
RECURSIVE Geoms(_)
Geoms(rows) == IF rows = <<>> THEN <<>> ELSE <<rows[1].geometry>> \o Geoms(Tail(rows))

\* line 118
GeometryType(feature_type) == IF feature_type \in polygon_types THEN "polygon" ELSE "line"

\* line 112: not data or "elements" not in data
NoData(d) == Falsy(d) \/ ~HasKey(d, "elements")

\* process_osm_data(data, feature_type): the exception it raises (or none),
\* the frame before clipping and the frame it returns.
process_osm_data(d, feature_type) ==
    IF NoData(d)
    THEN [exc |-> NoExc, gdf |-> EmptyFrame, result |-> EmptyFrame]
    ELSE LET elements == Lookup(d, "elements")
         IN IF elements.kind # "list"
            THEN [exc |-> "TypeError", gdf |-> EmptyFrame, result |-> EmptyFrame]
            ELSE LET conv == Convert(elements.items, GeometryType(feature_type))
                     frame == GeoDataFrame(Attrs(conv.rows), Geoms(conv.rows))
                 IN IF conv.exc # NoExc
                    THEN [exc |-> conv.exc, gdf |-> EmptyFrame, result |-> EmptyFrame]
                    ELSE [exc |-> NoExc, gdf |-> frame, result |-> clip(frame, bbox_polygon)]

(* -------------------------- fetch_osm_data ---------------------------- *)
\* What one pass of the loop body (lines 76-87) does with the service's
\* answer: "caught" (the except clause runs), "return" (line 84) or "raise"
\* (an exception the except clause does not name leaves the function).
CaughtKinds == {"ConnectionError", "Timeout", "HTTPError", "JSONDecodeError"}

AttemptOutcome(resp) ==
    IF resp.kind \in CaughtKinds THEN [how |-> "caught", exc |-> resp.kind]
    ELSE IF ~IsDict(resp.body) THEN [how |-> "raise", exc |-> "AttributeError"]
    ELSE IF HasKey(resp.body, "elements") /\ ~Sized(Lookup(resp.body, "elements"))
         THEN [how |-> "raise", exc |-> "TypeError"]
         ELSE [how |-> "return", exc |-> NoExc]

(* ------------------------- the service's answers ---------------------- *)
OnePoint == <<<<3, 2>>>>
InsideLine == <<<<3, 2>>, <<4, 2>>>>
StraddleLine == <<<<0, 2>>, <<3, 2>>>>
OutsideLine == <<<<0, 4>>, <<1, 4>>>>
Triangle == <<<<3, 1>>, <<5, 1>>, <<5, 3>>>>
StraddleRect == <<<<1, 0>>, <<4, 0>>, <<4, 2>>, <<1, 2>>>>
ClosedRing == <<<<3, 1>>, <<4, 1>>, <<4, 2>>, <<3, 1>>>>
BackAndForth == <<<<3, 2>>, <<4, 2>>, <<3, 2>>>>
Repeated == <<<<3, 2>>, <<3, 2>>, <<4, 2>>>>

\* The tag an element of a category carries in a well-formed answer.
CategoryTags(feature_type) ==
    CASE feature_type = "roads" -> Tag("highway", "residential")
      [] feature_type = "buildings" -> Tag("building", "yes")
      [] feature_type = "forests" -> Tag("landuse", "forest")
      [] feature_type = "rivers" -> Tag("waterway", "river")
      [] feature_type = "lakes" -> Tag("natural", "water")
      [] feature_type = "channels" -> Tag("waterway", "canal")
      [] OTHER -> Tag("natural", "water")

NoElementsBody == JDict({<<"remark", JNumber>>})
ListBody == JList(<<>>)
UntypedElementBody == Elements(<<[geometry |-> Nodes(InsideLine), tags |-> NoTags]>>)

\* Bodies a run of generate_map is answered with.
RunBodies(feature_type) ==
    {NoElementsBody, ListBody, UntypedElementBody,
     Elements(<<Way(IF feature_type \in polygon_types THEN StraddleRect ELSE StraddleLine,
                    CategoryTags(feature_type))>>)}
    \cup (IF feature_type = "roads"
          THEN {Elements(<<Way(StraddleLine, Tag("highway", "motorway")),
                           Way(InsideLine, Tag("highway", "track"))>>),
                Elements(<<Way(InsideLine, Tag("name", "A1"))>>),
                Elements(<<Way(OutsideLine, Tag("highway", "motorway")),
                           Way(InsideLine, Tag("name", "A1"))>>)}
          ELSE {})

\* Bodies process_osm_data is exercised with on its own: each is a dict
\* fetch_osm_data returns.
ProcBodies(feature_type) ==
    LET t == CategoryTags(feature_type)
    IN {JDict({}), NoElementsBody, Elements(<<>>),
        Elements(<<Way(OnePoint, t)>>),
        Elements(<<Way(<<>>, t), Way(InsideLine, t)>>),
        Elements(<<Way(InsideLine, t), Way(StraddleLine, Tag("name", "x")), Way(OutsideLine, t)>>),
        Elements(<<Way(Triangle, t)>>),
        Elements(<<Way(StraddleRect, t), Way(ClosedRing, NoTags)>>),
        Elements(<<Way(BackAndForth, t)>>),
        Elements(<<Way(Repeated, t), Way(Triangle, t)>>),
        Elements(<<[type |-> "node", tags |-> t],
                   [type |-> "relation", geometry |-> Nodes(Triangle), tags |-> t],
                   [type |-> "way", tags |-> t],
                   [type |-> "way", geometry |-> Nodes(Triangle)]>>),
        Elements(<<Way(Triangle, t), [geometry |-> Nodes(InsideLine), tags |-> t]>>),
        Elements(<<Way(InsideLine, t),
                   [type |-> "way", geometry |-> <<Node(3, 2), [lon |-> 4]>>, tags |-> t]>>),
        Elements(<<[type |-> "way", geometry |-> <<[lat |-> 2], Node(4, 2)>>, tags |-> t]>>)}

Failures == {[kind |-> k] : k \in CaughtKinds}
Answer(body) == [kind |-> "JSON", body |-> body]

\* What the service may answer one request of a run with.
Responses(feature_type) ==
    Failures \cup {Answer(b) : b \in RunBodies(feature_type) \cup {None, JDict({<<"elements", JNumber>>})}}

(* ------------------------------- state -------------------------------- *)
NoException == [name |-> NoExc, in |-> NoExc]

\* One entry of the run's history: a fetch or a process of a category, a
\* plot call (with the label it draws and whether it returned), the save.
Event(ev, cat, sub, ok) == [ev |-> ev, cat |-> cat, sub |-> sub, ok |-> ok]

feature_type == feature_types[fi]

Init ==
    /\ pc = "fetch"
    /\ fi = 1
    /\ attempt = 0 /\ requests = 0 /\ sleeps = 0 /\ outcomes = <<>>
    /\ data = None
    /\ gdf = EmptyFrame
    /\ gdfs = <<>>
    /\ di = 1 /\ ri = 1
    /\ trace = <<>>
    /\ failed = {}
    /\ drawn = {}
    /\ exc = NoException
    /\ shapely \in {1, 2}

\* fetch_osm_data, lines 68-73: the query lookup and the entry to the loop.
FetchStart ==
    /\ pc = "fetch"
    /\ trace' = Append(trace, Event("fetch", feature_type, "-", TRUE))
    /\ attempt' = 0 /\ requests' = 0 /\ sleeps' = 0 /\ outcomes' = <<>>
    /\ IF _get_overpass_query(feature_type) = ""
       THEN pc' = "process" /\ data' = None
       ELSE pc' = "attempt" /\ data' = data
    /\ UNCHANGED <<fi, gdf, gdfs, di, ri, failed, drawn, exc, shapely>>

\* fetch_osm_data, lines 76-86: one pass of the try block.
Attempt ==
    /\ pc = "attempt"
    /\ attempt < MaxAttempts
    /\ \E resp \in Responses(feature_type) :
         LET o == AttemptOutcome(resp)
         IN /\ requests' = requests + 1
            /\ outcomes' = Append(outcomes, resp)
            /\ IF o.how = "return"
               THEN pc' = "process" /\ data' = resp.body /\ exc' = exc
               ELSE IF o.how = "caught"
                    THEN pc' = "sleep" /\ data' = data /\ exc' = exc
                    ELSE /\ pc' = "aborted" /\ data' = data
                         /\ exc' = [name |-> o.exc, in |-> "fetch_osm_data"]
    /\ UNCHANGED <<fi, attempt, sleeps, gdf, gdfs, di, ri, trace, failed, drawn, shapely>>

\* fetch_osm_data, line 87 and the loop's next pass, or lines 89-90 when
\* the loop is over.
Sleep ==
    /\ pc = "sleep"
    /\ sleeps' = sleeps + 1
    /\ attempt' = attempt + 1
    /\ IF attempt + 1 < MaxAttempts
       THEN pc' = "attempt" /\ data' = data
       ELSE pc' = "process" /\ data' = None
    /\ UNCHANGED <<fi, requests, outcomes, gdf, gdfs, di, ri, trace, failed, drawn, exc, shapely>>

\* generate_map, line 148: process_osm_data on what the fetch returned,
\* then the next category, or lines 151-158 after the last one.  The
\* returned fetch's counters go with its frame.
Process ==
    /\ pc = "process"
    /\ LET r == process_osm_data(data, feature_type)
       IN /\ trace' = Append(trace, Event("process", feature_type,
                                        IF NoData(data) THEN "No data found" ELSE "-",
                                        r.exc = NoExc))
          /\ gdf' = r.gdf
          /\ IF r.exc # NoExc
             THEN /\ pc' = "aborted"
                  /\ exc' = [name |-> r.exc, in |-> "process_osm_data"]
                  /\ UNCHANGED <<fi, gdfs>>
             ELSE /\ gdfs' = Append(gdfs, r.result)
                  /\ exc' = exc
                  /\ IF fi < Len(feature_types)
                     THEN pc' = "fetch" /\ fi' = fi + 1
                     ELSE pc' = "plot" /\ fi' = fi
    /\ attempt' = 0 /\ requests' = 0 /\ sleeps' = 0 /\ outcomes' = <<>>
    /\ UNCHANGED <<data, di, ri, failed, drawn, shapely>>

(* ----------------------- generate_map: drawing ------------------------ *)
IndexOf(seq, x) == CHOOSE i \in 1..Len(seq) : seq[i] = x

feature == plot_order[di]
\* gdfs[feature]: the dict is filled in the order of feature_types.
FrameOf(f) == gdfs[IndexOf(feature_types, f)]

RECURSIVE Unique(_, _, _)
\* gdf[col].unique(): the values of a column in order of first appearance.
Unique(rows, col, seen) ==
    IF rows = <<>> THEN <<>>
    ELSE LET v == TagValue(rows[1].attrs, col)
         IN IF v \in seen THEN Unique(Tail(rows), col, seen)
            ELSE <<v>> \o Unique(Tail(rows), col, seen \cup {v})

\* gdf[gdf[col] == val]: NaN equals nothing, itself included.
Subset(rows, col, val) ==
    SelectSeq(rows, LAMBDA row : val # NaN /\ TagValue(row.attrs, col) = val)

RECURSIVE CoverOf(_)
CoverOf(rows) == IF rows = <<>> THEN {} ELSE rows[1].geometry.cover \cup CoverOf(Tail(rows))

road_types == Unique(FrameOf("roads").rows, "highway", {})

\* Lines 160-163 for a category whose frame is empty: nothing is drawn.
SkipEmpty ==
    /\ pc = "plot" /\ di <= Len(plot_order)
    /\ IsEmpty(FrameOf(feature))
    /\ di' = di + 1 /\ ri' = 1
    /\ UNCHANGED <<pc, fi, attempt, requests, sleeps, outcomes, data, gdf, gdfs,
                   trace, failed, drawn, exc, shapely>>

\* Lines 164-187 for a category drawn by one plot call (line 184, or line
\* 181 for roads without a "highway" column); the call returns or raises,
\* and the except clause catches what it raises.
PlotLayer ==
    /\ pc = "plot" /\ di <= Len(plot_order)
    /\ ~IsEmpty(FrameOf(feature))
    /\ feature # "roads" \/ "highway" \notin FrameOf(feature).columns
    /\ \E ok \in BOOLEAN :
         /\ trace' = Append(trace, Event("plot", feature, feature, ok))
         /\ drawn' = IF ok THEN drawn \cup CoverOf(FrameOf(feature).rows) ELSE drawn
         /\ failed' = IF ok THEN failed ELSE failed \cup {feature}
    /\ di' = di + 1 /\ ri' = 1
    /\ UNCHANGED <<pc, fi, attempt, requests, sleeps, outcomes, data, gdf, gdfs, exc, shapely>>

\* Where the loop over road types goes after the pass for road_types[ri].
NextRoadType ==
    IF ri < Len(road_types) THEN di' = di /\ ri' = ri + 1 ELSE di' = di + 1 /\ ri' = 1

\* Lines 170-178, one pass for a road type some row carries: the plot call
\* of line 178 returns, or raises and ends the drawing of roads.
PlotRoadType ==
    /\ pc = "plot" /\ di <= Len(plot_order)
    /\ feature = "roads"
    /\ ~IsEmpty(FrameOf(feature)) /\ "highway" \in FrameOf(feature).columns
    /\ Subset(FrameOf(feature).rows, "highway", road_types[ri]) # <<>>
    /\ \E ok \in BOOLEAN :
         /\ trace' = Append(trace, Event("plot", feature, road_types[ri], ok))
         /\ drawn' = IF ok
                     THEN drawn \cup CoverOf(Subset(FrameOf(feature).rows, "highway", road_types[ri]))
                     ELSE drawn
         /\ failed' = IF ok THEN failed ELSE failed \cup {feature}
         /\ IF ok THEN NextRoadType ELSE di' = di + 1 /\ ri' = 1
    /\ UNCHANGED <<pc, fi, attempt, requests, sleeps, outcomes, data, gdf, gdfs, exc, shapely>>

\* Lines 170-175, one pass for the missing value: the subset is empty and
\* the pass ends at the continue.
SkipRoadType ==
    /\ pc = "plot" /\ di <= Len(plot_order)
    /\ feature = "roads"
    /\ ~IsEmpty(FrameOf(feature)) /\ "highway" \in FrameOf(feature).columns
    /\ Subset(FrameOf(feature).rows, "highway", road_types[ri]) = <<>>
    /\ NextRoadType
    /\ UNCHANGED <<pc, fi, attempt, requests, sleeps, outcomes, data, gdf, gdfs,
                   trace, failed, drawn, exc, shapely>>

\* Lines 189-193: title, axis labels, savefig.
Save ==
    /\ pc = "plot" /\ di = Len(plot_order) + 1
    /\ trace' = Append(trace, Event("save", "-", "-", TRUE))
    /\ pc' = "saved"
    /\ UNCHANGED <<fi, attempt, requests, sleeps, outcomes, data, gdf, gdfs,
                   di, ri, failed, drawn, exc, shapely>>

\* generate_map
Next ==
    \/ FetchStart
    \/ Attempt
    \/ Sleep
    \/ Process
    \/ SkipEmpty
    \/ PlotLayer
    \/ PlotRoadType
    \/ SkipRoadType
    \/ Save

Spec == Init /\ [][Next]_vars

\* The axes' view limits in twentieths of a grid unit: matplotlib's default
\* (0, 1) while nothing is drawn, else the drawn data's extent widened by
\* the default margin of 5% of its range on each side (autoscale).
ViewScale == 100 \div 5
Lons(points) == {p[1] : p \in points}
Lats(points) == {p[2] : p \in points}
Autoscale(values) ==
    IF values = {} THEN <<0, ViewScale>>
    ELSE <<ViewScale * Min(values) - (Max(values) - Min(values)),
           ViewScale * Max(values) + (Max(values) - Min(values))>>
xlim == Autoscale(Lons(drawn))
ylim == Autoscale(Lats(drawn))

(* ----------- process_osm_data on its own, over more answers ----------- *)
RECURSIVE Degraded(_)
\* The history of a run whose first n categories were all answered without
\* an "elements" key.
Degraded(n) ==
    IF n = 0 THEN <<>>
    ELSE Degraded(n - 1) \o <<Event("fetch", feature_types[n], "-", TRUE),
                              Event("process", feature_types[n], "No data found", TRUE)>>

\* A run at line 148 with the fetch of one category just returned, the
\* categories before it having produced empty frames.
ProcInit ==
    /\ pc = "process"
    /\ fi \in 1..Len(feature_types)
    /\ data \in ProcBodies(feature_types[fi])
    /\ attempt = 0 /\ requests = 1 /\ sleeps = 0 /\ outcomes = <<Answer(data)>>
    /\ gdf = EmptyFrame
    /\ gdfs = [i \in 1..(fi - 1) |-> EmptyFrame]
    /\ di = 1 /\ ri = 1
    /\ trace = Degraded(fi - 1) \o <<Event("fetch", feature_types[fi], "-", TRUE)>>
    /\ failed = {}
    /\ drawn = {}
    /\ exc = NoException
    /\ shapely \in {1, 2}

ProcNext == Process

SpecProc == ProcInit /\ [][ProcNext]_vars

(* ------------------------------ properties ---------------------------- *)
\* The fetch has returned and generate_map is about to process its result.
FetchReturned == pc = "process"
\* The last thing the run did was a call of process_osm_data.
Processed == trace # <<>> /\ trace[Len(trace)].ev = "process"

ServiceFailures == {"ConnectionError", "Timeout", "HTTPError", "JSONDecodeError"}
Failed(resp) == resp.kind \in ServiceFailures
\* A successful answer: status 2xx and a body that is a record whose
\* "elements", when present, is a list.
Succeeded(resp) ==
    /\ resp.kind = "JSON"
    /\ resp.body.kind = "dict"
    /\ \A p \in resp.body.fields : p[1] = "elements" => p[2].kind = "list"

\* C1: a fetch makes at most 3 requests and none after a successful one; a
\* fetch whose service fails twice and then succeeds returns the third
\* answer's parsed body; a fetch whose service fails every time returns None
\* after exactly 3 requests.
C1_FetchRetry ==
    /\ requests <= 3
    /\ requests = Len(outcomes)
    /\ \A i \in 1..(Len(outcomes) - 1) : ~Succeeded(outcomes[i])
    /\ (FetchReturned /\ Succeeded(outcomes[Len(outcomes)]))
          => data = outcomes[Len(outcomes)].body
    /\ (FetchReturned /\ Len(outcomes) = 3 /\ Failed(outcomes[1]) /\ Failed(outcomes[2])
          /\ Succeeded(outcomes[3]))
          => (data = outcomes[3].body /\ requests <= 3)
    /\ (FetchReturned /\ \A i \in 1..Len(outcomes) : Failed(outcomes[i]))
          => (data = None /\ requests = 3)

C1_Witness ==
    /\ FetchReturned /\ Len(outcomes) = 3
    /\ Failed(outcomes[1]) /\ Failed(outcomes[2]) /\ Succeeded(outcomes[3])
    /\ data = outcomes[3].body /\ requests = 3

\* C2: fetch_osm_data never raises to its caller, whatever each attempt's
\* outcome is.
C2_FetchNeverRaises == exc.in # "fetch_osm_data"

ProcessedAsNoData ==
    {trace[k].cat : k \in {j \in 1..Len(trace) :
                             trace[j].ev = "process" /\ trace[j].sub = "No data found"}}
PlotsOf(c) == {k \in 1..Len(trace) : trace[k].ev = "plot" /\ trace[k].cat = c}

\* C3: a category whose fetch returned nothing, or a response without an
\* "elements" key, gets an empty frame and is not drawn, each fetch follows
\* the processing of the category before it, and a run with such a category
\* does not fail: it is never aborted by an exception.
C3_DegradedCategoryNeverFailsRun ==
    /\ \A c \in ProcessedAsNoData :
         /\ gdfs[IndexOf(feature_types, c)] = EmptyFrame
         /\ PlotsOf(c) = {}
    /\ \A k \in 2..Len(trace) : trace[k].ev = "fetch" => trace[k - 1].ev = "process"
    /\ ProcessedAsNoData # {} => pc # "aborted"

\* C4: process_osm_data never raises on a record that has an "elements"
\* list, however malformed the elements are.
C4_ProcessNeverRaises == exc.in # "process_osm_data"

NodesComplete(element) ==
    Has(element, "geometry") =>
        \A i \in 1..Len(element.geometry) :
            Has(element.geometry[i], "lon") /\ Has(element.geometry[i], "lat")

\* The feature the converter is to produce from one element: none, or its
\* shape kind and attributes.
ClaimedFeature(element, geometry_type) ==
    IF \/ ~Has(element, "type")
       \/ (Has(element, "type") /\ element.type # "way")
       \/ ~Has(element, "geometry")
       \/ (Has(element, "geometry") /\ Len(element.geometry) < 2)
    THEN <<>>
    ELSE <<[type |-> IF geometry_type = "polygon" /\ Len(element.geometry) >= 3
                     THEN "Polygon" ELSE "LineString",
            attrs |-> IF Has(element, "tags") THEN element.tags ELSE {}]>>

RECURSIVE ClaimedFeatures(_, _)
ClaimedFeatures(items, geometry_type) ==
    IF items = <<>> THEN <<>>
    ELSE ClaimedFeature(items[1], geometry_type) \o ClaimedFeatures(Tail(items), geometry_type)

\* C5: from a record's elements (their geometry points complete) the
\* conversion loop produces, in input order, nothing for an element that is
\* not a way, has no geometry or has fewer than 2 points, one polygon with
\* equal first and last points for a polygon category and at least 3
\* points, one line otherwise, each with the element's tags as attributes.
C5_ConverterOutput ==
    (/\ Processed
     /\ ~NoData(data)
     /\ Lookup(data, "elements").kind = "list"
     /\ \A i \in 1..Len(Lookup(data, "elements").items) :
            NodesComplete(Lookup(data, "elements").items[i]))
    => LET want == ClaimedFeatures(Lookup(data, "elements").items,
                                   IF trace[Len(trace)].cat \in {"buildings", "forests", "lakes"}
                                   THEN "polygon" ELSE "line")
       IN /\ exc = NoException
          /\ Len(gdf.rows) = Len(want)
          /\ \A k \in 1..Len(want) :
               /\ gdf.rows[k].geometry.type = want[k].type
               /\ gdf.rows[k].attrs = want[k].attrs
               /\ want[k].type = "Polygon" =>
                    gdf.rows[k].geometry.coords[1]
                      = gdf.rows[k].geometry.coords[Len(gdf.rows[k].geometry.coords)]

\* The rectangle (west, south, east, north) of the BoundingBox.
BoundingBox == {p \in Grid : west <= p[1] /\ p[1] <= east /\ south <= p[2] /\ p[2] <= north}

\* C6: every geometry of every frame process_osm_data returned, and every
\* point drawn, lies within the BoundingBox; the returned frame holds, in
\* order, the converted shapes that meet the box, each cut down to its part
\* inside the box and with its attributes, and no other shape.
C6_ClippedWithinBox ==
    /\ \A i \in 1..Len(gdfs) : \A k \in 1..Len(gdfs[i].rows) :
         /\ gdfs[i].rows[k].geometry.cover # {}
         /\ gdfs[i].rows[k].geometry.cover \subseteq BoundingBox
    /\ drawn \subseteq BoundingBox
    /\ (Processed /\ exc = NoException) =>
         LET out == gdfs[Len(gdfs)].rows
             kept == SelectSeq(gdf.rows, LAMBDA row : row.geometry.cover \cap BoundingBox # {})
         IN /\ Len(out) = Len(kept)
            /\ \A k \in 1..Len(kept) :
                 /\ out[k].attrs = kept[k].attrs
                 /\ out[k].geometry.cover = kept[k].geometry.cover \cap BoundingBox

C6_Witness ==
    /\ Processed /\ exc = NoException
    /\ Len(gdf.rows) = 3 /\ Len(gdfs[Len(gdfs)].rows) = 2
    /\ \E k \in 1..2 : \E j \in 1..3 :
         /\ gdfs[Len(gdfs)].rows[k].attrs = gdf.rows[j].attrs
         /\ gdfs[Len(gdfs)].rows[k].geometry.cover # gdf.rows[j].geometry.cover
         /\ gdfs[Len(gdfs)].rows[k].geometry.cover \subseteq gdf.rows[j].geometry.cover

Before(a, b) == IndexOf(plot_order, a) < IndexOf(plot_order, b)
Categories == {feature_types[i] : i \in 1..Len(feature_types)}

\* C7: once drawing has begun no drawing error ends the run, and in the
\* saved run every non-empty category whose own drawing did not fail and
\* that comes after a failed one in the draw order has been drawn.
C7_DrawErrorIsolated ==
    /\ failed # {} => pc \in {"plot", "saved"}
    /\ pc = "saved" =>
         \A c \in Categories :
            (/\ ~IsEmpty(FrameOf(c))
             /\ c \notin failed
             /\ \E f \in failed : Before(f, c))
            => PlotsOf(c) # {}

\* C8: plot calls follow the order water, lakes, forests, rivers, channels,
\* roads, buildings; only non-empty categories are drawn; nothing is drawn
\* before all seven categories are fetched and processed; the save comes
\* last; and in the saved run every non-empty category has been drawn.
C8_DrawOrder ==
    /\ \A i, j \in 1..Len(trace) :
         (i < j /\ trace[i].ev = "plot" /\ trace[j].ev = "plot")
            => ~Before(trace[j].cat, trace[i].cat)
    /\ \A j \in 1..Len(trace) :
         trace[j].ev = "plot" =>
            /\ ~IsEmpty(FrameOf(trace[j].cat))
            /\ \A c \in Categories :
                 \E i, k \in 1..(j - 1) :
                    /\ trace[i].ev = "fetch" /\ trace[i].cat = c
                    /\ trace[k].ev = "process" /\ trace[k].cat = c
    /\ \A j \in 1..Len(trace) : trace[j].ev = "save" => j = Len(trace)
    /\ pc = "saved" => \A c \in Categories : ~IsEmpty(FrameOf(c)) => PlotsOf(c) # {}

\* C9: when the image is saved the view limits are exactly the BoundingBox.
C9_ExtentIsBoundingBox ==
    pc = "saved" =>
        /\ xlim = <<ViewScale * west, ViewScale * east>>
        /\ ylim = <<ViewScale * south, ViewScale * north>>

\* C10: a fetch waits only between attempts: one wait fewer than requests
\* when it returns, so at most 2, and 2 when all 3 attempts failed.
C10_WaitsOnlyBetweenAttempts ==
    /\ sleeps <= 2
    /\ FetchReturned => sleeps = requests - 1

====
